---- MODULE Spec2Model ----
(***************************************************************************)
(* Model of the badwolf triple package (triple/triple.go) and of the       *)
(* semantic Statement / GraphClause builder (package semantic).            *)
(*                                                                         *)
(* Three specifications share the module:                                  *)
(*   Spec       the Statement builder driven by an arbitrary caller,       *)
(*   SpecTriple object construction, NewTriple and Reify,                  *)
(*   SpecParse  the split step of ParseTriple over bounded input lines.    *)
(***************************************************************************)
EXTENDS Integers, Sequences, FiniteSets, TLC

VARIABLES
    sType,          \* Statement.sType
    graphs,         \* Statement.graphs
    data,           \* Statement.data
    pattern,        \* Statement.pattern: sequence of *GraphClause (addresses)
    workingClause,  \* Statement.workingClause: *GraphClause (address)
    heap,           \* the live GraphClause instances, by address
    ret,            \* what the last call returned (or that it panicked)
    typeSet,        \* history: BindType has been called
    committed,      \* history: the clauses committed, in commit order
    tri             \* the triple package's current computation

vars == <<sType, graphs, data, pattern, workingClause, heap, ret, typeSet,
          committed, tri>>

stmtVars == <<sType, graphs, data, pattern, workingClause, heap, ret, typeSet,
              committed>>

(***************************************************************************)
(* Bounds of the model.                                                    *)
(***************************************************************************)
MaxClauses == 3     \* live GraphClause instances
MaxPopulated == 2   \* populated (non-zero) clause fields over all live clauses
MaxGraphs == 1      \* length of Statement.graphs
MaxData == 1        \* length of Statement.data

(***************************************************************************)
(* StatementType (iota constants).                                         *)
(***************************************************************************)
Query == 0
Insert == 1
Delete == 2
Create == 3
Drop == 4

StatementTypes == {Query, Insert, Delete, Create, Drop}

\* The types the caller binds.
TypeInputs == {Insert, Drop}

\* The Go nil pointer: for *GraphClause addresses, and for the pointer
\* fields of a clause.
NilPtr == 0
Nil == "nil"

Addrs == 1..MaxClauses

\* The fields of GraphClause, by kind.
PointerFields == {"S", "P", "O"}
TimeFields == {"PLowerBound", "PUpperBound", "OLowerBound", "OUpperBound"}
StringFields ==
    {"SBinding", "SAlias", "STypeAlias", "SIDAlias", "PAlias", "PID",
     "PAnchorBinding", "PBinding", "PLowerBoundAlias", "PUpperBoundAlias",
     "PIDAlias", "PAnchorAlias", "OBinding", "OID", "OAlias", "OTypeAlias",
     "OIDAlias", "OAnchorAlias", "OAnchorBinding", "OLowerBoundAlias",
     "OUpperBoundAlias"}
ClauseFields == PointerFields \cup TimeFields \cup StringFields

\* The zero value of a field: a nil pointer or the empty string.
Zero(f) == IF f \in StringFields THEN "" ELSE Nil

\* A GraphClause is held as the function from the fields that differ from
\* their zero value to what they hold; GraphClause{} holds none.
EmptyClause == [f \in {} |-> ""]

\* c.f
Field(c, f) == IF f \in DOMAIN c THEN c[f] ELSE Zero(f)

\* c.f = v
WithField(c, f, v) ==
    [g \in ((DOMAIN c) \ {f}) \cup (IF v = Zero(f) THEN {} ELSE {f}) |->
        IF g = f THEN v ELSE c[g]]

\* GraphClause.Specificity
Specificity(c) ==
    LET s0 == 0
        s1 == IF Field(c, "S") # Nil THEN s0 + 1 ELSE s0
        s2 == IF Field(c, "P") # Nil THEN s1 + 1 ELSE s1
        s3 == IF Field(c, "O") # Nil THEN s2 + 1 ELSE s2
    IN  s3

\* The value a call with no result leaves behind.
NoRet == [op |-> "none", panic |-> FALSE, clauses |-> <<>>, bs |-> <<>>]

\* A nil pointer dereference inside operation op.
PanicRet(op) == [op |-> op, panic |-> TRUE, clauses |-> <<>>, bs |-> <<>>]

\* Statement.Type
Type == sType

\* Statement.Graphs
Graphs == graphs

\* Statement.Data
Data == data

\* Statement.GraphPatternClauses
GraphPatternClauses == pattern

\* Statement.WorkingClause
WorkingClause == workingClause

\* &GraphClause{}: an address no live clause has.
FreshAddr(h) == CHOOSE a \in Addrs \ DOMAIN h : \A b \in Addrs \ DOMAIN h : a <= b

Range(s) == {s[i] : i \in DOMAIN s}

\* The clauses still referenced once the statement holds pat and w.
Live(h, pat, w) == [a \in (DOMAIN h) \cap (Range(pat) \cup {w}) |-> h[a]]

(***************************************************************************)
(* The caller's inputs.                                                    *)
(***************************************************************************)
GraphNames == {"?g"}
DataTriples == {"/u<a>\t\"p\"@[]\t/u<b>"}
BindingNames == {"", "?x"}

\* The clause fields the caller writes, and the values it writes to them.
SetFields == PointerFields \cup {"SBinding", "OID", "PID"}
FieldValues(f) ==
    IF f = "S" THEN {"/u<a>"}
    ELSE IF f = "P" THEN {"\"p\"@[]"}
    ELSE IF f = "O" THEN {"/u<b>"}
    ELSE BindingNames

\* Number of clause fields that differ from the zero value.
Populated(h) ==
    Cardinality({af \in (DOMAIN h) \X SetFields : af[2] \in DOMAIN h[af[1]]})

\* Whether &GraphClause{} fits the bound once pat is the pattern.
CanAlloc(h, pat) == DOMAIN Live(h, pat, NilPtr) # Addrs

\* Statement.ResetWorkingGraphClause: s.workingClause = &GraphClause{}
ResetResult(h, pat) ==
    LET h0 == Live(h, pat, NilPtr)
        a == FreshAddr(h0)
    IN  [heap |-> h0 @@ (a :> EmptyClause), workingClause |-> a]

\* A commit that forgets to replace the working clause.
CommitNoReset(h, pat, w) ==
    [pattern |-> Append(pat, w), heap |-> h, workingClause |-> w]

\* Statement.AddWorkingGrpahClause: append, then reset.
CommitResult(h, pat, w) ==
    LET pat2 == Append(pat, w)
        r == ResetResult(h, pat2)
    IN  [pattern |-> pat2, heap |-> r.heap, workingClause |-> r.workingClause]

\* bySpecificity.Less with the comparison reversed.
LessAscending(h, s, i, j) == Specificity(h[s[i]]) < Specificity(h[s[j]])

\* bySpecificity.Less
Less(h, s, i, j) == Specificity(h[s[i]]) > Specificity(h[s[j]])

\* bySpecificity.Swap
Swap(s, i, j) == [s EXCEPT ![i] = s[j], ![j] = s[i]]

\* bySpecificity.Len
SLen(s) == Len(s)

\* The inner loop of the insertion sort sort.Sort runs on slices this
\* short: for j := i; j > a && Less(j, j-1); j-- { Swap(j, j-1) }.
\* Less dereferences both elements; a nil one panics.
RECURSIVE InsertDown(_, _, _)
InsertDown(h, st, j) ==
    IF st.panic \/ j <= 1 THEN st
    ELSE IF st.s[j] = NilPtr \/ st.s[j - 1] = NilPtr
         THEN [st EXCEPT !.panic = TRUE]
    ELSE IF Less(h, st.s, j, j - 1)
         THEN InsertDown(h, [st EXCEPT !.s = Swap(st.s, j, j - 1)], j - 1)
    ELSE st

\* The outer loop: for i := a + 1; i < b; i++.
RECURSIVE InsertionSort(_, _, _)
InsertionSort(h, st, i) ==
    IF st.panic \/ i > SLen(st.s) THEN st
    ELSE InsertionSort(h, InsertDown(h, st, i), i + 1)

\* sort.Sort(bySpecificity(ptrns))
SortResult(h, pat) == InsertionSort(h, [s |-> pat, panic |-> FALSE], 2)

\* The binding fields Bindings reads, in the order it reads them.
BindingFields ==
    <<"SBinding", "SAlias", "STypeAlias", "SIDAlias", "PAlias",
      "PAnchorBinding", "PBinding", "PLowerBoundAlias", "PUpperBoundAlias",
      "PIDAlias", "PAnchorAlias", "OBinding", "OID", "OAlias", "OTypeAlias",
      "OIDAlias", "OAnchorAlias", "OAnchorBinding", "OLowerBoundAlias",
      "OUpperBoundAlias">>

\* A map[string]int with no entry.
EmptyMap == [n \in {} |-> 0]

\* addToBindings that restarts the counter at one.
AddToBindingsNoCount(bs, b) ==
    IF b # "" THEN (b :> 1) @@ bs ELSE bs

\* addToBindings: bs[b]++ unless b is empty.
addToBindings(bs, b) ==
    IF b # ""
    THEN IF b \in DOMAIN bs THEN [bs EXCEPT ![b] = @ + 1] ELSE bs @@ (b :> 1)
    ELSE bs

\* The twenty addToBindings calls of one loop iteration.
RECURSIVE ClauseBindings(_, _, _)
ClauseBindings(bs, c, k) ==
    IF k > Len(BindingFields) THEN bs
    ELSE ClauseBindings(addToBindings(bs, Field(c, BindingFields[k])), c, k + 1)

\* for _, cls := range s.pattern: a nil cls panics at its first field read.
RECURSIVE BindingsLoop(_, _, _)
BindingsLoop(h, pat, st) ==
    IF st.panic \/ st.i > Len(pat) THEN st
    ELSE IF pat[st.i] = NilPtr THEN [st EXCEPT !.panic = TRUE]
    ELSE BindingsLoop(h, pat,
            [st EXCEPT !.bs = ClauseBindings(st.bs, h[pat[st.i]], 1),
                       !.i = st.i + 1])

\* Statement.Bindings
BindingsResult(h, pat) ==
    BindingsLoop(h, pat, [bs |-> EmptyMap, panic |-> FALSE, i |-> 1])

(***************************************************************************)
(* The Statement operations.                                               *)
(***************************************************************************)
StmtInit ==
    /\ sType = Query
    /\ graphs = <<>>
    /\ data = <<>>
    /\ pattern = <<>>
    /\ workingClause = NilPtr
    /\ heap = [a \in {} |-> EmptyClause]
    /\ ret = NoRet
    /\ typeSet = FALSE
    /\ committed = <<>>

Running == ~ret.panic

BindType(st) ==
    /\ Running
    /\ sType' = st
    /\ typeSet' = TRUE
    /\ ret' = NoRet
    /\ UNCHANGED <<graphs, data, pattern, workingClause, heap, committed, tri>>

\* An AddGraph that also clears the statement type.
AddGraphResetsType(g) ==
    /\ Running
    /\ Len(graphs) < MaxGraphs
    /\ graphs' = Append(graphs, g)
    /\ sType' = Query
    /\ ret' = NoRet
    /\ UNCHANGED <<data, pattern, workingClause, heap, typeSet, committed, tri>>

AddGraph(g) ==
    /\ Running
    /\ Len(graphs) < MaxGraphs
    /\ graphs' = Append(graphs, g)
    /\ ret' = NoRet
    /\ UNCHANGED <<sType, data, pattern, workingClause, heap, typeSet,
                   committed, tri>>

AddData(d) ==
    /\ Running
    /\ Len(data) < MaxData
    /\ data' = Append(data, d)
    /\ ret' = NoRet
    /\ UNCHANGED <<sType, graphs, pattern, workingClause, heap, typeSet,
                   committed, tri>>

ResetWorkingGraphClause ==
    /\ Running
    /\ CanAlloc(heap, pattern)
    /\ LET r == ResetResult(heap, pattern)
       IN  /\ heap' = r.heap
           /\ workingClause' = r.workingClause
    /\ ret' = NoRet
    /\ UNCHANGED <<sType, graphs, data, pattern, typeSet, committed, tri>>

AddWorkingGrpahClause ==
    /\ Running
    /\ Len(pattern) < MaxClauses
    /\ CanAlloc(heap, Append(pattern, workingClause))
    /\ LET r == CommitResult(heap, pattern, workingClause)
       IN  /\ pattern' = r.pattern
           /\ heap' = r.heap
           /\ workingClause' = r.workingClause
    /\ committed' = Append(committed, workingClause)
    /\ ret' = NoRet
    /\ UNCHANGED <<sType, graphs, data, typeSet, tri>>

\* s.WorkingClause().f = v, as the parser's hooks write a clause field.
SetField(f, v) ==
    /\ Running
    /\ IF WorkingClause = NilPtr
       THEN /\ ret' = PanicRet("SetField")
            /\ heap' = heap
       ELSE /\ heap' = [heap EXCEPT ![WorkingClause] = WithField(@, f, v)]
            /\ Populated(heap') <= MaxPopulated
            /\ ret' = NoRet
    /\ UNCHANGED <<sType, graphs, data, pattern, workingClause, typeSet,
                   committed, tri>>

\* ptrns aliases s.pattern, so the sort reorders the statement's own slice.
SortedGraphPatternClauses ==
    /\ Running
    /\ LET r == SortResult(heap, pattern)
       IN  /\ pattern' = r.s
           /\ ret' = IF r.panic THEN PanicRet("SortedGraphPatternClauses")
                     ELSE [NoRet EXCEPT !.op = "SortedGraphPatternClauses",
                                        !.clauses = r.s]
    /\ UNCHANGED <<sType, graphs, data, workingClause, heap, typeSet,
                   committed, tri>>

Bindings ==
    /\ Running
    /\ LET r == BindingsResult(heap, pattern)
       IN  ret' = IF r.panic THEN PanicRet("Bindings")
                  ELSE [NoRet EXCEPT !.op = "Bindings", !.bs = r.bs]
    /\ UNCHANGED <<sType, graphs, data, pattern, workingClause, heap, typeSet,
                   committed, tri>>

TriIdle == [op |-> "idle"]

Init == StmtInit /\ tri = TriIdle

Next ==
    \/ \E st \in TypeInputs : BindType(st)
    \/ \E g \in GraphNames : AddGraph(g)
    \/ \E d \in DataTriples : AddData(d)
    \/ ResetWorkingGraphClause
    \/ AddWorkingGrpahClause
    \/ \E f \in SetFields : \E v \in FieldValues(f) : SetField(f, v)
    \/ SortedGraphPatternClauses
    \/ Bindings

Spec == Init /\ [][Next]_vars

(***************************************************************************)
(* The triple package: objects, triples and reification.                   *)
(***************************************************************************)
MaxReify == 2       \* blank nodes handed out by node.NewBlankNode

\* A Go pointer: nil, or a reference to a value.
NilRef == <<>>
Ref(v) == <<v>>
Deref(r) == r[1]

\* A nil error.
NoErr == "nil"

\* predicate.Type
Immutable == "Immutable"
Temporal == "Temporal"

\* predicate.NewImmutable
NewImmutable(id) ==
    IF id = ""
    THEN [p |-> NilRef, err |-> "predicate.NewImmutable: empty ID"]
    ELSE [p |-> Ref([id |-> id, type |-> Immutable, anchor |-> ""]),
          err |-> NoErr]

\* predicate.NewTemporal
NewTemporal(id, t) ==
    IF id = ""
    THEN [p |-> NilRef, err |-> "predicate.NewTemporal: empty ID"]
    ELSE [p |-> Ref([id |-> id, type |-> Temporal, anchor |-> t]),
          err |-> NoErr]

\* node.NewBlankNode: the k-th call returns a node no earlier call returned.
NewBlankNode(k) == Ref("/_<" \o ToString(k) \o ">")

\* The values the caller holds.
Nodes == {"/u<a>", "/u<b>"}
Literals == {"\"v\"^^type:text"}
Predicates ==
    {Deref(NewImmutable("p").p), Deref(NewTemporal("p", "T1").p),
     Deref(NewTemporal("q", "T2").p)}

NodeArgs == {NilRef} \cup {Ref(n) : n \in Nodes}
PredicateArgs == {NilRef} \cup {Ref(q) : q \in Predicates}
LiteralArgs == {NilRef} \cup {Ref(l) : l \in Literals}

\* NewNodeObject
NewNodeObject(n) == Ref([n |-> n, p |-> NilRef, l |-> NilRef])

\* NewPredicateObject
NewPredicateObject(q) == Ref([n |-> NilRef, p |-> q, l |-> NilRef])

\* NewLiteralObject
NewLiteralObject(l) == Ref([n |-> NilRef, p |-> NilRef, l |-> l])

\* Object.Node
Node(o) ==
    IF Deref(o).n = NilRef
    THEN [ok |-> FALSE, err |-> "triple.Literal does not box a node"]
    ELSE [ok |-> TRUE, err |-> NoErr]

\* Object.Predicate
Predicate(o) ==
    IF Deref(o).p = NilRef
    THEN [ok |-> FALSE, err |-> "triple.Literal does not box a predicate"]
    ELSE [ok |-> TRUE, err |-> NoErr]

\* Object.Literal
Literal(o) ==
    IF Deref(o).l = NilRef
    THEN [ok |-> FALSE, err |-> "triple.Literal does not box a literal"]
    ELSE [ok |-> TRUE, err |-> NoErr]

\* The texts handed to ParseObject, and what the three parsers make of them.
ObjectTexts == {"/u<a>", "\"v\"^^type:text", "\"p\"@[T1]", "?"}

\* node.Parse
NodeParse(s) ==
    IF s \in Nodes THEN [v |-> Ref(s), err |-> NoErr]
    ELSE [v |-> NilRef, err |-> "node.Parse"]

\* literal.Builder.Parse
LiteralParse(s) ==
    IF s \in Literals THEN [v |-> Ref(s), err |-> NoErr]
    ELSE [v |-> NilRef, err |-> "literal.Parse"]

\* predicate.Parse
PredicateParse(s) ==
    IF s = "\"p\"@[T1]" THEN [v |-> NewTemporal("p", "T1").p, err |-> NoErr]
    ELSE IF s = "\"p\"@[]" THEN [v |-> NewImmutable("p").p, err |-> NoErr]
    ELSE [v |-> NilRef, err |-> "predicate.Parse"]

\* ParseObject: node, then literal, then predicate.
ParseObject(s) ==
    LET n == NodeParse(s)
        l == LiteralParse(s)
        o == PredicateParse(s)
    IN  IF n.err # NoErr
        THEN IF l.err # NoErr
             THEN IF o.err # NoErr
                  THEN [o |-> NilRef, err |-> o.err]
                  ELSE [o |-> NewPredicateObject(o.v), err |-> NoErr]
             ELSE [o |-> NewLiteralObject(l.v), err |-> NoErr]
        ELSE [o |-> NewNodeObject(n.v), err |-> NoErr]

\* NewTriple
NewTriple(s, q, o) ==
    IF s = NilRef \/ q = NilRef \/ o = NilRef
    THEN [t |-> NilRef, err |-> "triple.NewTriple cannot create triples from nil components"]
    ELSE [t |-> Ref([s |-> s, p |-> q, o |-> o]), err |-> NoErr]

\* Reify's rp: the id is used for an immutable predicate only.
rp(id, q) ==
    IF Deref(q).type = Temporal
    THEN NewTemporal(Deref(q).id, Deref(q).anchor)
    ELSE NewImmutable(id)

ReifyFailed(err) == [ts |-> <<>>, b |-> NilRef, err |-> err]

\* Triple.Reify, with b the node NewBlankNode returned.
Reify(t, b) ==
    LET tv == Deref(t)
        s == rp("_subject", tv.p)
        ts == NewTriple(b, s.p, NewNodeObject(tv.s)).t
        p == rp("_predicate", tv.p)
        tp == NewTriple(b, p.p, NewPredicateObject(tv.p)).t
        o == rp("_object", tv.p)
        ov == Deref(tv.o)
        to1 == IF ov.l # NilRef
               THEN NewTriple(b, o.p, NewLiteralObject(ov.l)).t
               ELSE NilRef
        to2 == IF ov.n # NilRef
               THEN NewTriple(b, o.p, NewNodeObject(ov.n)).t
               ELSE to1
        to3 == IF ov.p # NilRef
               THEN NewTriple(b, o.p, NewPredicateObject(ov.p)).t
               ELSE to2
    IN  IF s.err # NoErr THEN ReifyFailed(s.err)
        ELSE IF p.err # NoErr THEN ReifyFailed(p.err)
        ELSE IF (ov.l # NilRef \/ ov.n # NilRef \/ ov.p # NilRef)
                    /\ o.err # NoErr
             THEN ReifyFailed(o.err)
        ELSE [ts |-> <<t, ts, tp, to3>>, b |-> b, err |-> NoErr]

TriStart ==
    [op |-> "start", o |-> NilRef, t |-> NilRef, ts |-> <<>>, b |-> NilRef,
     err |-> NoErr, blanks |-> 0]

TriInit == StmtInit /\ tri = TriStart

\* Forget what was built from the previous object.
WithObject(op, o, err) ==
    [TriStart EXCEPT !.op = op, !.o = o, !.err = err, !.blanks = tri.blanks]

NewNodeObjectCall(n) ==
    /\ tri' = WithObject("NewNodeObject", NewNodeObject(n), NoErr)
    /\ UNCHANGED stmtVars

NewPredicateObjectCall(q) ==
    /\ tri' = WithObject("NewPredicateObject", NewPredicateObject(q), NoErr)
    /\ UNCHANGED stmtVars

NewLiteralObjectCall(l) ==
    /\ tri' = WithObject("NewLiteralObject", NewLiteralObject(l), NoErr)
    /\ UNCHANGED stmtVars

ParseObjectCall(s) ==
    /\ LET r == ParseObject(s)
       IN  tri' = WithObject("ParseObject", r.o, r.err)
    /\ UNCHANGED stmtVars

\* NewTriple on the object built last (nil when none was).
NewTripleCall(s, q) ==
    /\ LET r == NewTriple(s, q, tri.o)
       IN  tri' = [tri EXCEPT !.op = "NewTriple", !.t = r.t, !.err = r.err,
                              !.ts = <<>>, !.b = NilRef]
    /\ UNCHANGED stmtVars

ReifyCall ==
    /\ tri.t # NilRef
    /\ tri.blanks < MaxReify
    /\ LET r == Reify(tri.t, NewBlankNode(tri.blanks + 1))
       IN  tri' = [tri EXCEPT !.op = "Reify", !.ts = r.ts, !.b = r.b,
                              !.err = r.err, !.blanks = @ + 1]
    /\ UNCHANGED stmtVars

TriNext ==
    \/ \E n \in NodeArgs : NewNodeObjectCall(n)
    \/ \E q \in PredicateArgs : NewPredicateObjectCall(q)
    \/ \E l \in LiteralArgs : NewLiteralObjectCall(l)
    \/ \E s \in ObjectTexts : ParseObjectCall(s)
    \/ \E s \in NodeArgs : \E q \in PredicateArgs : NewTripleCall(s, q)
    \/ ReifyCall

SpecTriple == TriInit /\ [][TriNext]_vars

(***************************************************************************)
(* ParseTriple: the split of a line into subject, predicate and object.    *)
(* A line is a sequence of one-character strings; indices into it are the  *)
(* zero-based byte offsets the Go code uses.                               *)
(***************************************************************************)
MaxLineLen == 7     \* length of an input line

Whitespace == {" ", "\t", "\n", "\r"}

\* The characters input lines are made of.
Alphabet == {">", "]", " ", "\"", "/", "a"}

Lines == UNION {[1..n -> Alphabet] : n \in 0..MaxLineLen}

\* strings.TrimSpace
RECURSIVE TrimLeft(_)
TrimLeft(l) ==
    IF l # <<>> /\ Head(l) \in Whitespace THEN TrimLeft(Tail(l)) ELSE l

RECURSIVE TrimRight(_)
TrimRight(l) ==
    IF l # <<>> /\ l[Len(l)] \in Whitespace
    THEN TrimRight(SubSeq(l, 1, Len(l) - 1))
    ELSE l

TrimSpace(l) == TrimRight(TrimLeft(l))

\* The offset just past the whitespace run that starts at offset k.
RECURSIVE SkipSpace(_, _)
SkipSpace(raw, k) ==
    IF k < Len(raw) /\ raw[k + 1] \in Whitespace THEN SkipSpace(raw, k + 1)
    ELSE k

\* Whether first, \s+ and one of lasts match at offset i; the match's end.
MatchEnd(raw, i, first, lasts) ==
    LET k == SkipSpace(raw, i + 1)
    IN  IF /\ i < Len(raw) /\ raw[i + 1] = first
           /\ k > i + 1
           /\ k < Len(raw) /\ raw[k + 1] \in lasts
        THEN k + 1
        ELSE -1

\* regexp.FindIndex: the leftmost match as <<start, end>>, or nil.
RECURSIVE FindFrom(_, _, _, _)
FindFrom(raw, i, first, lasts) ==
    IF i >= Len(raw) THEN <<>>
    ELSE IF MatchEnd(raw, i, first, lasts) >= 0
         THEN <<i, MatchEnd(raw, i, first, lasts)>>
    ELSE FindFrom(raw, i + 1, first, lasts)

\* pSplit = >\s+"
pSplit(raw) == FindFrom(raw, 0, ">", {"\""})

\* oSplit = (]\s+/)|(]\s+")
oSplit(raw) == FindFrom(raw, 0, "]", {"/", "\""})

\* raw[lo:hi]: a slice expression panics unless 0 <= lo <= hi <= len(raw).
InBounds(raw, lo, hi) == 0 <= lo /\ lo <= hi /\ hi <= Len(raw)
Slice(raw, lo, hi) == SubSeq(raw, lo + 1, hi)

\* Which of the sub-parsers (node, predicate, object) rejects its slice.
SubParseOutcomes == {"none", "subject", "predicate", "object"}

ParseStart(l) ==
    [op |-> "line", line |-> l, outcome |-> "", ss |-> <<>>, sp |-> <<>>,
     so |-> <<>>]

\* ParseTriple up to its sub-parsers, whose verdict is fail.
ParseTriple(line, fail) ==
    LET raw == TrimSpace(line)
        idxp == pSplit(raw)
        idxo == oSplit(raw)
        done(outcome) == [ParseStart(line) EXCEPT !.op = "ParseTriple",
                                                  !.outcome = outcome]
    IN  IF Len(idxp) = 0 \/ Len(idxo) = 0 THEN done("SplitError")
        ELSE IF ~(/\ InBounds(raw, 0, idxp[1] + 1)
                  /\ InBounds(raw, idxp[2] - 1, idxo[1] + 1)
                  /\ InBounds(raw, idxo[2] - 1, Len(raw)))
             THEN done("panic")
        ELSE [done(IF fail = "none" THEN "triple" ELSE "SubParseError")
                EXCEPT !.ss = Slice(raw, 0, idxp[1] + 1),
                       !.sp = Slice(raw, idxp[2] - 1, idxo[1] + 1),
                       !.so = Slice(raw, idxo[2] - 1, Len(raw))]

ParseInit == StmtInit /\ tri \in {ParseStart(l) : l \in Lines}

ParseTripleCall(fail) ==
    /\ tri.op = "line"
    /\ tri' = ParseTriple(tri.line, fail)
    /\ UNCHANGED stmtVars

ParseNext == \E fail \in SubParseOutcomes : ParseTripleCall(fail)

SpecParse == ParseInit /\ [][ParseNext]_vars

(***************************************************************************)
(* Properties of the Statement builder, checked under Spec.                *)
(***************************************************************************)

\* C4 (as claimed): once BindType has been called, no later operation, a
\* second BindType included, changes what Type() returns.
C4_TypeImmutableOnceSet == [][typeSet => sType' = sType]_vars

\* C4 (amended): Type() returns the argument of the most recent BindType
\* call: a step either is a BindType(st), after which Type() is st, or
\* leaves Type() unchanged.
C4_TypeFollowsLastBindType ==
    [][(\E st \in TypeInputs : BindType(st) /\ Type' = st) \/ Type' = Type]_vars

\* C4 witness: the type was bound and graph, data and clause operations
\* have acted on the statement since it was created.
C4_Witness ==
    /\ typeSet /\ Type = Drop
    /\ Graphs # <<>> /\ Data # <<>> /\ pattern # <<>>
    /\ ret.op = "Bindings"

\* C6: no step changes a field of a committed clause, and a commit leaves
\* a working clause that is a fresh empty instance, distinct from every
\* committed clause.
C6_CommitIsolation ==
    [][/\ \A i \in DOMAIN pattern :
            pattern[i] # NilPtr =>
                /\ pattern[i] \in DOMAIN heap'
                /\ heap'[pattern[i]] = heap[pattern[i]]
       /\ Len(pattern') = Len(pattern) + 1 =>
            /\ WorkingClause' # NilPtr
            /\ WorkingClause' \notin Range(pattern')
            /\ WorkingClause' \in DOMAIN heap'
            /\ heap'[WorkingClause'] = EmptyClause]_vars

\* C6 witness: after a commit the new working clause was written to, and
\* the committed clause still holds its own, different, fields.
C6_Witness ==
    \E i \in DOMAIN pattern :
        /\ pattern[i] # NilPtr
        /\ WorkingClause # NilPtr
        /\ WorkingClause # pattern[i]
        /\ heap[pattern[i]] # EmptyClause
        /\ heap[WorkingClause] # EmptyClause
        /\ heap[WorkingClause] # heap[pattern[i]]

\* The number of arms among S, P, O that hold a concrete value.
ConcreteArms(c) == Cardinality({f \in PointerFields : Field(c, f) # Nil})

\* How many times a occurs in s.
Occurrences(s, a) == Cardinality({i \in DOMAIN s : s[i] = a})

IsPermutation(s, t) ==
    /\ Len(s) = Len(t)
    /\ \A a \in Range(s) \cup Range(t) : Occurrences(s, a) = Occurrences(t, a)

NameFields == StringFields \ {"PID"}

\* The (clause, field) places of the committed pattern that hold name n.
PlacesHolding(n) ==
    {cf \in (DOMAIN committed) \X NameFields :
        /\ committed[cf[1]] # NilPtr
        /\ Field(heap[committed[cf[1]]], cf[2]) = n}

\* C8: the map Bindings returns has exactly the non-empty names held by the
\* name fields of the committed clauses as keys, each mapped to the number
\* of fields that hold it.
C8_BindingsCounts ==
    (ret.op = "Bindings" /\ ~ret.panic) =>
        /\ DOMAIN ret.bs = {n \in BindingNames \ {""} : PlacesHolding(n) # {}}
        /\ \A n \in DOMAIN ret.bs : ret.bs[n] = Cardinality(PlacesHolding(n))

\* C8 witness: Bindings counted the same name in two committed clauses.
C8_Witness ==
    /\ ret.op = "Bindings" /\ ~ret.panic
    /\ "?x" \in DOMAIN ret.bs /\ ret.bs["?x"] = 2
    /\ \E i, j \in DOMAIN pattern :
            /\ i # j
            /\ Field(heap[pattern[i]], "SBinding") = "?x"
            /\ Field(heap[pattern[j]], "SBinding") = "?x"

\* C9 (as claimed): GraphPatternClauses() is the committed clauses in
\* commit order, whatever operations ran, SortedGraphPatternClauses
\* included.
C9_PatternKeepsCommitOrder == GraphPatternClauses = committed

\* C10 (as claimed): every committed clause is present, so neither
\* Bindings nor SortedGraphPatternClauses meets a nil clause, and once the
\* pattern is not empty the working clause is present too.
C10_ClausesPresent ==
    /\ \A i \in DOMAIN pattern : pattern[i] # NilPtr
    /\ pattern # <<>> => WorkingClause # NilPtr
    /\ ~(ret.panic /\ ret.op \in {"Bindings", "SortedGraphPatternClauses"})

(***************************************************************************)
(* Properties of the triple package, checked under SpecParse (C1) and      *)
(* SpecTriple (C2, C3, C5).                                                *)
(***************************************************************************)

\* C1 (as claimed): ParseTriple never panics; a line in which either split
\* pattern has no match gives a SplitError, and in a line in which both
\* match the three slices are well-formed.
C1_SplitNeverPanics ==
    tri.op = "ParseTriple" =>
        LET raw == TrimSpace(tri.line)
            idxp == pSplit(raw)
            idxo == oSplit(raw)
        IN  /\ tri.outcome # "panic"
            /\ (idxp = <<>> \/ idxo = <<>>) => tri.outcome = "SplitError"
            /\ (idxp # <<>> /\ idxo # <<>>) =>
                    /\ 0 <= idxp[1] + 1
                    /\ idxp[2] - 1 <= idxo[1] + 1
                    /\ idxo[2] - 1 <= Len(raw)

\* C2 (as claimed): a Reify that returns no error returns four triples,
\* none absent: the original and three whose subject is the blank node,
\* which is a node the caller did not have.
C2_ReifyShape ==
    (tri.op = "Reify" /\ tri.err = NoErr) =>
        /\ Len(tri.ts) = 4
        /\ tri.b # NilRef
        /\ Deref(tri.b) \notin Nodes
        /\ tri.ts[1] = tri.t
        /\ \A i \in 2..4 :
                tri.ts[i] # NilRef /\ Deref(tri.ts[i]).s = tri.b

RoleSuffix == <<"", "_subject", "_predicate", "_object">>

\* C3 (as claimed): the role predicates of a reified Temporal predicate
\* are Temporal, keep its anchor and carry its ID with the role's suffix,
\* so they differ from role to role; those of an Immutable predicate are
\* the Immutable predicates named by the suffix.
C3_RolePredicates ==
    (tri.op = "Reify" /\ tri.err = NoErr) =>
        LET q == Deref(Deref(tri.t).p)
            role(i) == Deref(Deref(tri.ts[i]).p)
            built == {i \in 2..4 : tri.ts[i] # NilRef}
        IN  IF q.type = Temporal
            THEN /\ \A i \in built :
                        role(i) = [id |-> q.id \o RoleSuffix[i],
                                   type |-> Temporal, anchor |-> q.anchor]
                 /\ \A i, j \in built : i # j => role(i) # role(j)
            ELSE \A i \in built :
                        role(i) = [id |-> RoleSuffix[i], type |-> Immutable,
                                   anchor |-> ""]

\* C5 (as claimed): of the accessors Node, Predicate and Literal of a
\* constructed or parsed Object, exactly one succeeds and the other two
\* return an error.
C5_VariantExclusivity ==
    (/\ tri.op \in {"NewNodeObject", "NewPredicateObject",
                    "NewLiteralObject", "ParseObject"}
     /\ tri.o # NilRef) =>
        /\ Cardinality({a \in {"n", "p", "l"} :
                (IF a = "n" THEN Node(tri.o)
                 ELSE IF a = "p" THEN Predicate(tri.o)
                 ELSE Literal(tri.o)).ok}) = 1
        /\ Cardinality({a \in {"n", "p", "l"} :
                (IF a = "n" THEN Node(tri.o)
                 ELSE IF a = "p" THEN Predicate(tri.o)
                 ELSE Literal(tri.o)).err # NoErr}) = 2

====
